---- MODULE Spec2Model ----
(***************************************************************************)
(* darwin-notify: the safe facade of src/src/lib.rs over the Darwin notify *)
(* API.  The facade functions are modelled from lib.rs.  The notification  *)
(* daemon behind the foreign functions of `mod sys` and the dispatch queue *)
(* serviced by CFRunLoopRun are the environment: they are modelled from    *)
(* the written specification (names prefixed sys_, and Deliver).           *)
(*                                                                         *)
(* TLC integers are 32-bit signed.  A u32 status code is an Int sampled    *)
(* from 0..2^31-1 (the match in from_u32 compares for equality only).    *)
(* A u64 state value is a tuple of four 16-bit limbs, most significant     *)
(* first, so that u64::MAX is representable.                               *)
(***************************************************************************)
EXTENDS Integers, Sequences, FiniteSets, TLC

\* ---------------------------------------------------------------- bounds
\* facade calls made in one run of the program
MaxCalls == 5
\* tokens the daemon can hand out
MaxRegs == 2
\* largest code of the contiguous range the conversion is exercised on
MaxCode == 100

\* ------------------------------------------------------- program constants
Failed == 1000000

\* ------------------------------------------------------------ input samples
U64Zero == <<0, 0, 0, 0>>
U64Max == <<65535, 65535, 65535, 65535>>
StateSamples == {U64Zero, U64Max}

\* notification names as byte strings; byte 0 is the NUL byte
NameA == <<97>>
NameNul == <<97, 0, 98>>
Names == {NameA, NameNul}

\* the tokens the daemon hands out; a caller passes any of them, registered
\* or not
Tokens == 1..MaxRegs
TokenInputs == Tokens

\* a status the daemon may answer with whatever the request: a code outside
\* the documented set
DaemonFailures == {11}
\* values the daemon may leave in the check slot
CheckSamples == {0, 1, 2}
\* codes the conversion is exercised on
CodeSamples == (0..MaxCode) \cup {Failed - 1, Failed, Failed + 1, 2147483647}

\* ------------------------------------------------------------ pure functions

\* NotifyError::from_u32 with the 10 -> NullInput arm dropped
from_u32_short(code) ==
  CASE code = 1 -> "InvalidName"
    [] code = 2 -> "InvalidToken"
    [] code = 3 -> "InvalidPort"
    [] code = 4 -> "InvalidFile"
    [] code = 5 -> "InvalidSignal"
    [] code = 6 -> "InvalidRequest"
    [] code = 7 -> "NotAuthorized"
    [] code = 8 -> "OptDisabled"
    [] code = 9 -> "ServerNotFound"
    [] code = Failed -> "Failed"
    [] OTHER -> "Unknown"

from_u32(code) ==
  CASE code = 1 -> "InvalidName"
    [] code = 2 -> "InvalidToken"
    [] code = 3 -> "InvalidPort"
    [] code = 4 -> "InvalidFile"
    [] code = 5 -> "InvalidSignal"
    [] code = 6 -> "InvalidRequest"
    [] code = 7 -> "NotAuthorized"
    [] code = 8 -> "OptDisabled"
    [] code = 9 -> "ServerNotFound"
    [] code = 10 -> "NullInput"
    [] code = Failed -> "Failed"
    [] OTHER -> "Unknown"

\* ns_result! that lets a code outside the documented set pass as success
ns_result_lenient(e) ==
  IF e = 0 \/ from_u32(e) = "Unknown"
    THEN [ok |-> TRUE, err |-> "none"]
    ELSE [ok |-> FALSE, err |-> from_u32(e)]

\* the ns_result! macro: 0 => Ok(()), code => Err(from_u32(code))
ns_result(e) ==
  IF e = 0
    THEN [ok |-> TRUE, err |-> "none"]
    ELSE [ok |-> FALSE, err |-> from_u32(e)]

HasNul(name) == \E i \in 1..Len(name) : name[i] = 0

RECURSIVE UntilNul(_)
\* what a C reader sees of a byte string: the bytes before the first NUL
UntilNul(bytes) ==
  IF bytes = <<>> \/ Head(bytes) = 0 THEN <<>>
  ELSE <<Head(bytes)>> \o UntilNul(Tail(bytes))

\* CString::new that does not look for interior NUL bytes
CStringNew_unchecked(name) == [ok |-> TRUE, bytes |-> name \o <<0>>]

\* CString::new(name): Err on an interior NUL, else the bytes NUL-terminated
CStringNew(name) ==
  IF HasNul(name) THEN [ok |-> FALSE, bytes |-> <<>>]
  ELSE [ok |-> TRUE, bytes |-> name \o <<0>>]

\* Ok(check != 0)
CheckToBool_nonzero(check) == check # 0

\* Ok(check == 1) of notify_check
CheckToBool(check) == check = 1


\* ---------------------------------------------------------------- state
VARIABLES
  subs,           \* daemon: per token, the subscription it stands for
  blocks,         \* heap blocks (callback adapters), one per notify_register call
  nreg,           \* number of notify_register calls that reached the foreign call
  daemonRetains,  \* whether notify_register_dispatch takes its own reference
                  \* to the handler (FALSE: the raw pointer only, as the
                  \* written specification has it; TRUE: it copies the block)
  invoked,        \* per callback, how many times the caller's closure has run
  args,           \* per callback, the arguments it has been run with
  posts,          \* per token, Ok posts of its name since it was registered
  susOk,          \* per token, notify_suspend calls that returned Ok
  resOk,          \* per token, notify_resume calls that returned Ok
  cancelOk,       \* tokens for which notify_cancel returned Ok
  lastSet,        \* per token, the value of the last Ok notify_set_state
  last,           \* the most recent facade call and what it returned
  panicked,       \* the calling thread has panicked (unwrap on Err)
  ncalls,         \* facade calls made so far
  conv            \* the most recent application of the conversion functions

vars == <<subs, blocks, nreg, daemonRetains, invoked, args, posts, susOk, resOk,
          cancelOk, lastSet, last, panicked, ncalls, conv>>
facadeHist == <<susOk, resOk, cancelOk, lastSet>>

\* a facade call is entered: the program is alive and makes one more call
Enter == ~panicked /\ ncalls < MaxCalls /\ ncalls' = ncalls + 1

NoSub == [st |-> "unregistered", name |-> <<>>, susp |-> 0, state |-> U64Zero,
          pend |-> 0]
NoBlock == [made |-> FALSE, facade |-> FALSE, daemon |-> FALSE]
NoCall == [op |-> "none", name |-> <<>>, tok |-> -1, status |-> -1, ok |-> FALSE,
           err |-> "none", ival |-> 0, sval |-> U64Zero, bval |-> FALSE,
           slot |-> 0, calls |-> <<>>, blk |-> 0]
NoConv == [code |-> -1, kind |-> "none", ok |-> FALSE, err |-> "none"]

\* a block is deallocated when its last reference is released
BlockFreed(b) == blocks[b].made /\ ~blocks[b].facade /\ ~blocks[b].daemon

Init ==
  /\ subs = [t \in Tokens |-> NoSub]
  /\ blocks = [b \in Tokens |-> NoBlock]
  /\ nreg = 0
  /\ daemonRetains \in BOOLEAN
  /\ invoked = [b \in Tokens |-> 0]
  /\ args = [b \in Tokens |-> {}]
  /\ posts = [t \in Tokens |-> 0]
  /\ susOk = [t \in Tokens |-> 0]
  /\ resOk = [t \in Tokens |-> 0]
  /\ cancelOk = {}
  /\ lastSet = [t \in Tokens |-> <<>>]
  /\ last = NoCall
  /\ panicked = FALSE
  /\ ncalls = 0
  /\ conv = NoConv

\* ------------------------------------------------ daemon (environment)
Active(t) == t \in Tokens /\ subs[t].st = "active"

\* the statuses a foreign call may return: 0 only for a request the daemon
\* accepts, InvalidToken for a token it does not know, a failure at any time
Statuses(valid) == (IF valid THEN {0} ELSE {2}) \cup DaemonFailures

\* notify_post: every active subscription of the name gets one callback queued
sys_notify_post(cname) ==
  [t \in Tokens |->
     IF subs[t].st = "active" /\ subs[t].name = UntilNul(cname)
       THEN [subs[t] EXCEPT !.pend = @ + 1] ELSE subs[t]]

\* notify_register_dispatch: a new token, bound to the name and the handler
sys_notify_register_dispatch(cname, t) ==
  [subs EXCEPT ![t] = [st |-> "active", name |-> UntilNul(cname), susp |-> 0,
                       state |-> U64Zero, pend |-> 0]]

\* notify_suspend: one more level of suspension
sys_notify_suspend(t) == [subs EXCEPT ![t].susp = @ + 1]

\* notify_resume: one level of suspension less (none to remove: no effect)
sys_notify_resume(t) ==
  [subs EXCEPT ![t].susp = IF @ > 0 THEN @ - 1 ELSE 0]

\* notify_cancel: the token is gone, with the callbacks still queued for it
sys_notify_cancel(t) == [subs EXCEPT ![t].st = "canceled", ![t].pend = 0]

\* notify_set_state: the daemon stores the value for the token
sys_notify_set_state(t, v) == [subs EXCEPT ![t].state = v]

\* notify_get_state: the daemon writes the stored value to the out slot
sys_notify_get_state(t) == subs[t].state

\* ------------------------------------------------------------ the facade

\* .unwrap() on the Err of CString::new: the call panics before it does anything
Panic(op, name) ==
  /\ panicked' = TRUE
  /\ last' = [NoCall EXCEPT !.op = op, !.name = name]
  /\ UNCHANGED <<subs, blocks, nreg, daemonRetains, invoked, args, posts,
                 facadeHist, conv>>

\* what a token-taking wrapper built on ns_result! returns for status s
TokenCall(op, token, s, r, fn) ==
  [NoCall EXCEPT !.op = op, !.tok = token, !.status = s, !.ok = r.ok,
                 !.err = r.err, !.calls = <<fn>>]

Matches(t, cname) == subs[t].st = "active" /\ subs[t].name = UntilNul(cname)

notify_post(name) ==
  /\ Enter
  /\ LET c == CStringNew(name) IN
     IF ~c.ok THEN Panic("notify_post", name)
     ELSE \E s \in Statuses(TRUE) :
       LET r == ns_result(s) IN
       /\ subs' = IF s = 0 THEN sys_notify_post(c.bytes) ELSE subs
       /\ posts' = IF s = 0
                     THEN [t \in Tokens |->
                             IF Matches(t, c.bytes) THEN posts[t] + 1 ELSE posts[t]]
                     ELSE posts
       /\ last' = [NoCall EXCEPT !.op = "notify_post", !.name = name, !.status = s,
                                 !.ok = r.ok, !.err = r.err,
                                 !.calls = <<"notify_post">>]
       /\ UNCHANGED <<blocks, nreg, daemonRetains, invoked, args, facadeHist,
                      panicked, conv>>

\* the RcBlock kept out of Drop (mem::forget), so never released by the facade
DropRcBlock_forget(blk) == blk

\* `block` goes out of scope when notify_register returns, on either arm of
\* the match: Drop for RcBlock releases the facade's reference
DropRcBlock(blk) == [blk EXCEPT !.facade = FALSE]

\* the argument the block hands to the caller's closure: |token| cb(token)
BlockInvoke(token) == token

notify_register(name) ==
  /\ Enter
  /\ LET c == CStringNew(name) IN
     IF ~c.ok THEN Panic("notify_register", name)
     ELSE \E s \in Statuses(TRUE) :
       LET b == nreg + 1
           \* ConcreteBlock::new(..).copy(): a heap block the facade holds
           blk == [made |-> TRUE, facade |-> TRUE,
                   daemon |-> (s = 0 /\ daemonRetains)]
           \* let mut token = 0, written by the daemon on success
           token == IF s = 0 THEN b ELSE 0
       IN
       /\ nreg < MaxRegs
       /\ nreg' = b
       /\ subs' = IF s = 0 THEN sys_notify_register_dispatch(c.bytes, b) ELSE subs
       /\ blocks' = [blocks EXCEPT ![b] = DropRcBlock(blk)]
       /\ last' = [NoCall EXCEPT
                     !.op = "notify_register", !.name = name, !.status = s,
                     !.ok = (s = 0),
                     !.err = IF s = 0 THEN "none" ELSE from_u32(s),
                     !.ival = IF s = 0 THEN token ELSE 0,
                     !.slot = token, !.blk = b,
                     !.calls = <<"dispatch_get_current_queue",
                                 "notify_register_dispatch">>]
       /\ UNCHANGED <<daemonRetains, invoked, args, posts, facadeHist, panicked,
                      conv>>

\* notify_suspend wired to sys::notify_resume
notify_suspend_swapped(token) ==
  /\ Enter
  /\ \E s \in Statuses(Active(token)) :
       LET r == ns_result(s) IN
       /\ subs' = IF s = 0 THEN sys_notify_resume(token) ELSE subs
       /\ susOk' = IF r.ok /\ token \in Tokens
                     THEN [susOk EXCEPT ![token] = @ + 1] ELSE susOk
       /\ last' = TokenCall("notify_suspend", token, s, r, "notify_resume")
       /\ UNCHANGED <<blocks, nreg, daemonRetains, invoked, args, posts, resOk,
                      cancelOk, lastSet, panicked, conv>>

notify_suspend(token) ==
  /\ Enter
  /\ \E s \in Statuses(Active(token)) :
       LET r == ns_result(s) IN
       /\ subs' = IF s = 0 THEN sys_notify_suspend(token) ELSE subs
       /\ susOk' = IF r.ok /\ token \in Tokens
                     THEN [susOk EXCEPT ![token] = @ + 1] ELSE susOk
       /\ last' = TokenCall("notify_suspend", token, s, r, "notify_suspend")
       /\ UNCHANGED <<blocks, nreg, daemonRetains, invoked, args, posts, resOk,
                      cancelOk, lastSet, panicked, conv>>

notify_resume(token) ==
  /\ Enter
  /\ \E s \in Statuses(Active(token)) :
       LET r == ns_result(s) IN
       /\ subs' = IF s = 0 THEN sys_notify_resume(token) ELSE subs
       /\ resOk' = IF r.ok /\ token \in Tokens
                     THEN [resOk EXCEPT ![token] = @ + 1] ELSE resOk
       /\ last' = TokenCall("notify_resume", token, s, r, "notify_resume")
       /\ UNCHANGED <<blocks, nreg, daemonRetains, invoked, args, posts, susOk,
                      cancelOk, lastSet, panicked, conv>>

\* notify_cancel wired to sys::notify_suspend
notify_cancel_swapped(token) ==
  /\ Enter
  /\ \E s \in Statuses(Active(token)) :
       LET r == ns_result(s) IN
       /\ subs' = IF s = 0 THEN sys_notify_suspend(token) ELSE subs
       /\ cancelOk' = IF r.ok /\ token \in Tokens
                        THEN cancelOk \cup {token} ELSE cancelOk
       /\ last' = TokenCall("notify_cancel", token, s, r, "notify_suspend")
       /\ UNCHANGED <<blocks, nreg, daemonRetains, invoked, args, posts, susOk,
                      resOk, lastSet, panicked, conv>>

notify_cancel(token) ==
  /\ Enter
  /\ \E s \in Statuses(Active(token)) :
       LET r == ns_result(s) IN
       /\ subs' = IF s = 0 THEN sys_notify_cancel(token) ELSE subs
       \* with the subscription gone the daemon drops the reference it took
       /\ blocks' = IF s = 0 THEN [blocks EXCEPT ![token].daemon = FALSE]
                    ELSE blocks
       /\ cancelOk' = IF r.ok /\ token \in Tokens
                        THEN cancelOk \cup {token} ELSE cancelOk
       /\ last' = TokenCall("notify_cancel", token, s, r, "notify_cancel")
       /\ UNCHANGED <<nreg, daemonRetains, invoked, args, posts, susOk, resOk,
                      lastSet, panicked, conv>>

notify_set_state(token, state) ==
  /\ Enter
  /\ \E s \in Statuses(Active(token)) :
       LET r == ns_result(s) IN
       /\ subs' = IF s = 0 THEN sys_notify_set_state(token, state)
                  ELSE subs
       /\ lastSet' = IF r.ok /\ token \in Tokens
                       THEN [lastSet EXCEPT ![token] = state] ELSE lastSet
       /\ last' = [TokenCall("notify_set_state", token, s, r, "notify_set_state")
                     EXCEPT !.sval = state]
       /\ UNCHANGED <<blocks, nreg, daemonRetains, invoked, args, posts, susOk,
                      resOk, cancelOk, panicked, conv>>

\* notify_get_state that answers from the initial value of its local
notify_get_state_local(token) ==
  /\ Enter
  /\ \E s \in Statuses(Active(token)) :
       /\ last' = [NoCall EXCEPT
                     !.op = "notify_get_state", !.tok = token, !.status = s,
                     !.ok = (s = 0),
                     !.err = IF s = 0 THEN "none" ELSE from_u32(s),
                     !.sval = U64Zero,
                     !.calls = <<"notify_get_state">>]
       /\ UNCHANGED <<subs, blocks, nreg, daemonRetains, invoked, args, posts,
                      facadeHist, panicked, conv>>

notify_get_state(token) ==
  /\ Enter
  /\ \E s \in Statuses(Active(token)) :
       LET \* let mut state = 0, written by the daemon on success
           state == IF s = 0 THEN sys_notify_get_state(token) ELSE U64Zero
       IN
       /\ last' = [NoCall EXCEPT
                     !.op = "notify_get_state", !.tok = token, !.status = s,
                     !.ok = (s = 0),
                     !.err = IF s = 0 THEN "none" ELSE from_u32(s),
                     !.sval = IF s = 0 THEN state ELSE U64Zero,
                     !.calls = <<"notify_get_state">>]
       /\ UNCHANGED <<subs, blocks, nreg, daemonRetains, invoked, args, posts,
                      facadeHist, panicked, conv>>

notify_check(token) ==
  /\ Enter
  /\ \E s \in Statuses(Active(token)) :
     \* let mut check = 0; the daemon writes the slot when it accepts the call
     \* and may or may not have written it when it fails
     \E check \in (IF s = 0 THEN CheckSamples ELSE CheckSamples \cup {0}) :
       /\ last' = [NoCall EXCEPT
                     !.op = "notify_check", !.tok = token, !.status = s,
                     !.ok = (s = 0),
                     !.err = IF s = 0 THEN "none" ELSE from_u32(s),
                     !.bval = IF s = 0 THEN CheckToBool(check) ELSE FALSE,
                     !.slot = check,
                     !.calls = <<"notify_check">>]
       /\ UNCHANGED <<subs, blocks, nreg, daemonRetains, invoked, args, posts,
                      facadeHist, panicked, conv>>

\* --------------------------------------------- the run loop (environment)

\* CFRunLoopRun services the queue: one queued callback of a subscription that
\* is not suspended is handed to its block.  A block that has been deallocated
\* is a dangling pointer: calling it may still run the closure with the token,
\* run it with something else, or run nothing.
Deliver(t) ==
  /\ ~panicked
  /\ Active(t) /\ subs[t].susp = 0 /\ subs[t].pend > 0
  /\ subs' = [subs EXCEPT ![t].pend = @ - 1]
  /\ IF BlockFreed(t)
       THEN \E outcome \in {"token", "garbage", "nothing"} :
              /\ invoked' = IF outcome = "nothing" THEN invoked
                            ELSE [invoked EXCEPT ![t] = @ + 1]
              /\ args' = CASE outcome = "token" -> [args EXCEPT ![t] = @ \cup {t}]
                           [] outcome = "garbage" -> [args EXCEPT ![t] = @ \cup {0}]
                           [] OTHER -> args
       ELSE /\ invoked' = [invoked EXCEPT ![t] = @ + 1]
            /\ args' = [args EXCEPT ![t] = @ \cup {BlockInvoke(t)}]
  /\ UNCHANGED <<blocks, nreg, daemonRetains, posts, facadeHist, last, panicked,
                 ncalls, conv>>

Next ==
  \/ \E name \in Names : notify_post(name)
  \/ \E name \in Names : notify_register(name)
  \/ \E token \in TokenInputs : notify_suspend(token)
  \/ \E token \in TokenInputs : notify_resume(token)
  \/ \E token \in TokenInputs : notify_cancel(token)
  \/ \E token \in TokenInputs, state \in StateSamples : notify_set_state(token, state)
  \/ \E token \in TokenInputs : notify_get_state(token)
  \/ \E token \in TokenInputs : notify_check(token)
  \/ \E t \in Tokens : Deliver(t)

Spec == Init /\ [][Next]_vars

\* ------------------------------------- the conversion functions on their own

\* from_u32 and ns_result! applied to one code
Convert(code) ==
  /\ conv' = [code |-> code, kind |-> from_u32(code), ok |-> ns_result(code).ok,
              err |-> ns_result(code).err]
  /\ UNCHANGED <<subs, blocks, nreg, daemonRetains, invoked, args, posts,
                 facadeHist, last, panicked, ncalls>>

NextConv == \E code \in CodeSamples : Convert(code)

SpecConv == Init /\ [][NextConv]_vars

\* ================================================================ claims

EightOps == {"notify_post", "notify_register", "notify_suspend", "notify_resume",
             "notify_cancel", "notify_get_state", "notify_set_state",
             "notify_check"}
Kinds == {"InvalidName", "InvalidToken", "InvalidPort", "InvalidFile",
          "InvalidSignal", "InvalidRequest", "NotAuthorized", "OptDisabled",
          "ServerNotFound", "NullInput", "Failed", "Unknown"}

\* the table of status codes of the written specification, row by row
Table(c) ==
  CASE c = 0 -> "Success"
    [] c = 1 -> "InvalidName"
    [] c = 2 -> "InvalidToken"
    [] c = 3 -> "InvalidPort"
    [] c = 4 -> "InvalidFile"
    [] c = 5 -> "InvalidSignal"
    [] c = 6 -> "InvalidRequest"
    [] c = 7 -> "NotAuthorized"
    [] c = 8 -> "OptDisabled"
    [] c = 9 -> "ServerNotFound"
    [] c = 10 -> "NullInput"
    [] c = 1000000 -> "Failed"
    [] OTHER -> "Unknown"

\* C1 as stated: from_u32 gives every code, 0 included, the kind of its table
\* row (success for 0) and Unknown for a code without a row.
C1_TableWithZero == conv.code # -1 => conv.kind = Table(conv.code)

\* C1 as amended: from_u32 returns an error kind for every code; it is the
\* kind of the table row for 1..10 and 1000000, and Unknown for every other
\* code, 0 included (from_u32 has no success value: 0 is told apart by the
\* callers before from_u32 is reached).
C1_TableNonZero ==
  conv.code # -1 =>
    /\ conv.kind \in Kinds
    /\ conv.kind = IF conv.code \in (1..10) \cup {1000000}
                     THEN Table(conv.code) ELSE "Unknown"

C1_Witness == conv.code = 0 /\ conv.kind = "Unknown"

\* C2: each of the eight facade operations returns Ok exactly when the status
\* the daemon returned is 0, and Err(from_u32(s)) for a status s other than 0.
C2_StatusPropagated ==
  (last.op \in EightOps /\ last.status # -1) =>
    /\ last.ok <=> last.status = 0
    /\ last.status # 0 => last.err = from_u32(last.status)
    /\ last.status = 0 => last.err = "none"

C2_Witness ==
  last.op = "notify_suspend" /\ last.status = 11 /\ ~last.ok /\ last.err = "Unknown"

\* C3: notify_check returns Ok(true) when the status is 0 and the daemon wrote
\* 1 to the check slot, Ok(false) when the status is 0 and it wrote anything
\* else, and an Err when the status is not 0, whatever the slot holds.
C3_CheckMapping ==
  last.op = "notify_check" =>
    /\ last.status = 0 => last.ok /\ (last.bval <=> last.slot = 1)
    /\ last.status # 0 => ~last.ok /\ last.err # "none"

C3_Witness ==
  last.op = "notify_check" /\ last.status = 0 /\ last.slot = 2 /\ ~last.bval

\* C4: notify_register with a name holding a NUL byte panics (no NotifyError
\* is returned) before any foreign call: neither dispatch_get_current_queue
\* nor notify_register_dispatch is called, the daemon and the heap are as
\* they were, and the call yields no token.
C4_NulNameFailsFirst ==
  [][(ncalls' # ncalls /\ last'.op = "notify_register" /\ HasNul(last'.name)) =>
       /\ panicked'
       /\ last'.calls = <<>>
       /\ ~last'.ok /\ last'.err = "none" /\ last'.status = -1
       /\ last'.ival = 0
       /\ UNCHANGED <<subs, blocks, nreg>>]_vars

C4_Witness ==
  panicked /\ last.op = "notify_register" /\ HasNul(last.name) /\ last.calls = <<>>

\* C5 as stated: from the successful return of notify_register until the token
\* is canceled the facade has not released the callback adapter, so the
\* adapter is still allocated whenever a callback can be delivered to it.
C5_AdapterKept ==
  \A t \in Tokens :
    (Active(t) /\ t \notin cancelOk) => blocks[t].facade /\ ~BlockFreed(t)

\* C6 as stated: after notify_register returned Ok(t), one notify_post of the
\* name and the run loop having delivered what was queued, the closure has run
\* exactly once, with t (for a token never suspended nor canceled).
C6_OnePostOneCall ==
  \A t \in Tokens :
    (Active(t) /\ posts[t] = 1 /\ subs[t].pend = 0 /\ susOk[t] = 0) =>
      invoked[t] = 1 /\ args[t] = {t}

C9_StateRoundTrip ==
  (last.op = "notify_get_state" /\ last.ok) =>
    /\ last.sval = subs[last.tok].state
    /\ lastSet[last.tok] # <<>> => last.sval = lastSet[last.tok]

C9_Witness ==
  last.op = "notify_get_state" /\ last.ok /\ last.sval = U64Max

\* C10: when notify_register_dispatch returns a status other than 0,
\* notify_register returns the mapped error and no token, no subscription
\* exists for the call, and the adapter made for it has been released and is
\* deallocated when notify_register returns.
C10_FailedRegisterFreesAdapter ==
  (last.op = "notify_register" /\ last.status # -1 /\ last.status # 0) =>
    /\ ~last.ok /\ last.err = from_u32(last.status) /\ last.ival = 0
    /\ subs[last.blk].st = "unregistered"
    /\ blocks[last.blk].made /\ ~blocks[last.blk].facade /\ BlockFreed(last.blk)

C10_Witness ==
  last.op = "notify_register" /\ last.status = 11 /\ BlockFreed(last.blk)
====
